---- MODULE Spec2Model ----
(***************************************************************************)
(* Model of the OpenAI Card Updater add-on (src/__init__.py): the          *)
(* single-item flow (_run_button, its background task and on_done, and     *)
(* _handle_response) and the bulk flow (_run_button_bulk, its background   *)
(* task loop and on_done), together with the pure helpers they call.       *)
(*                                                                         *)
(* Text is a sequence of atoms (strings that are never split); a JSON      *)
(* document inside a text is one atom, parsed by table lookup.             *)
(***************************************************************************)
EXTENDS Integers, Sequences, FiniteSets, Bags, TLC

\* ------------------------------------------------------------------ bounds

\* How many times the editor button may be pressed in one behaviour.
MaxRequests == 2

\* ------------------------------------------------------------------- text

Whitespace == {" ", "\n"}

RECURSIVE LStrip(_)
LStrip(t) ==
    IF t = <<>> THEN <<>>
    ELSE IF Head(t) \in Whitespace THEN LStrip(Tail(t))
    ELSE t

RECURSIVE RStrip(_)
RStrip(t) ==
    IF t = <<>> THEN <<>>
    ELSE IF t[Len(t)] \in Whitespace THEN RStrip(SubSeq(t, 1, Len(t) - 1))
    ELSE t

\* str.strip()
Strip(t) == RStrip(LStrip(t))

\* "\n".join(t for t in texts if t)
RECURSIVE JoinNonEmpty(_)
JoinNonEmpty(texts) ==
    IF texts = <<>> THEN <<>>
    ELSE LET rest == JoinNonEmpty(Tail(texts))
         IN  IF Head(texts) = <<>> THEN rest
             ELSE IF rest = <<>> THEN Head(texts)
             ELSE Head(texts) \o <<"\n">> \o rest

\* ------------------------------------------------------------ JSON values

AllKeys == {"success", "error", "message", "x", "y"}

JStr(s) == [t |-> "str", s |-> s]
JNum(s) == [t |-> "num", s |-> s]
JTrue == [t |-> "bool", s |-> "true"]
JFalse == [t |-> "bool", s |-> "false"]
JNone == [t |-> "null", s |-> ""]

\* A JSON object with the members of record r.
JObj(r) ==
    [kind |-> "object", keys |-> DOMAIN r,
     val |-> [k \in AllKeys |-> IF k \in DOMAIN r THEN r[k] ELSE JNone]]

\* A JSON value that is not an object (an array, a number, null, ...).
JOther(kind) == [kind |-> kind, keys |-> {}, val |-> [k \in AllKeys |-> JNone]]

IsDict(v) == v.kind = "object"

\* dict.get(key): the member, or None when the key is absent.
DictGet(v, key) == IF key \in v.keys THEN v.val[key] ELSE JNone

\* str(value) for the scalar values a result carries.
PyStr(v) ==
    CASE v.t = "str" -> IF v.s = "" THEN <<>> ELSE <<v.s>>
      [] v.t = "num" -> <<v.s>>
      [] v.t = "bool" -> IF v.s = "true" THEN <<"True">> ELSE <<"False">>
      [] OTHER -> <<"None">>

\* Python truthiness of a scalar value.
Truthy(v) ==
    CASE v.t = "str" -> v.s # ""
      [] v.t = "num" -> v.s # "0"
      [] v.t = "bool" -> v.s = "true"
      [] OTHER -> FALSE

\* The JSON documents the model's API can answer with, each one atom of text.
DocOkXY == "{\"success\":true,\"x\":\"v\",\"y\":7}"
DocOkX == "{\"success\":true,\"x\":\"v\"}"
DocOkNone == "{\"success\":true}"
DocFailErr == "{\"success\":false,\"error\":\"bad\",\"x\":\"v\"}"
DocFailMsg == "{\"success\":false,\"error\":\"\",\"message\":\"later\"}"
DocFailBare == "{\"x\":\"v\",\"y\":\"w\"}"
DocTruthy == "{\"success\":\"true\",\"x\":\"v\"}"
DocOne == "{\"success\":1,\"y\":\"w\"}"
DocArray == "[]"
DocNull == "null"

DocAtoms ==
    {DocOkXY, DocOkX, DocOkNone, DocFailErr, DocFailMsg, DocFailBare,
     DocTruthy, DocOne, DocArray, DocNull}

\* The value json.loads gives for a document atom.
JsonValue(a) ==
    CASE a = DocOkXY -> JObj([success |-> JTrue, x |-> JStr("v"), y |-> JNum("7")])
      [] a = DocOkX -> JObj([success |-> JTrue, x |-> JStr("v")])
      [] a = DocOkNone -> JObj([success |-> JTrue])
      [] a = DocFailErr -> JObj([success |-> JFalse, error |-> JStr("bad"), x |-> JStr("v")])
      [] a = DocFailMsg -> JObj([success |-> JFalse, error |-> JStr(""), message |-> JStr("later")])
      [] a = DocFailBare -> JObj([x |-> JStr("v"), y |-> JStr("w")])
      [] a = DocTruthy -> JObj([success |-> JStr("true"), x |-> JStr("v")])
      [] a = DocOne -> JObj([success |-> JNum("1"), y |-> JStr("w")])
      [] a = DocArray -> JOther("array")
      [] OTHER -> JOther("null")

\* json.loads(text): surrounding whitespace is skipped; exactly one document
\* must remain, anything else raises JSONDecodeError.
JsonLoads(text) ==
    LET s == Strip(text)
    IN  IF Len(s) = 1 /\ s[1] \in DocAtoms
        THEN [ok |-> TRUE, value |-> JsonValue(s[1])]
        ELSE [ok |-> FALSE, value |-> JOther("null")]

\* json.dumps(value): the text of the document.
JsonDumps(v) == << CHOOSE a \in DocAtoms : JsonValue(a) = v >>

\* --------------------------------------------------------------- envelope

\* Content blocks and output items of an API response envelope.
TextBlock(text) == [type |-> "output_text", text |-> text, json |-> JOther("null")]
JsonBlock(v) == [type |-> "output_json", text |-> <<>>, json |-> v]
OtherBlock == [type |-> "refusal", text |-> <<"no">>, json |-> JOther("null")]
Message(content) == [type |-> "message", content |-> content]
Reasoning(content) == [type |-> "reasoning", content |-> content]
Envelope(items) == [kind |-> "object", output |-> items]
\* A body that is valid JSON but not an object: json.loads returns it as it is.
EnvelopeNotDict == [kind |-> "array", output |-> <<>>]

\* The inner loop over item.get("content"): collects the text of output_text
\* blocks; an output_json block with a payload ends the whole extraction.
RECURSIVE ScanContent(_, _)
ScanContent(content, texts) ==
    IF content = <<>> THEN [found |-> FALSE, out |-> <<>>, texts |-> texts]
    ELSE LET c == Head(content)
         IN  IF c.type = "output_text"
             THEN ScanContent(Tail(content), Append(texts, c.text))
             ELSE IF c.type = "output_json" /\ c.json # JOther("null")
             THEN [found |-> TRUE, out |-> JsonDumps(c.json), texts |-> texts]
             ELSE ScanContent(Tail(content), texts)

\* An outer loop that reads the content of every output item, whatever its
\* type.
RECURSIVE ScanItemsAnyType(_, _)
ScanItemsAnyType(items, texts) ==
    IF items = <<>> THEN [found |-> FALSE, out |-> <<>>, texts |-> texts]
    ELSE LET r == ScanContent(Head(items).content, texts)
         IN  IF r.found THEN r ELSE ScanItemsAnyType(Tail(items), r.texts)

\* The outer loop over response_json.get("output"): only message items count.
RECURSIVE ScanItems(_, _)
ScanItems(items, texts) ==
    IF items = <<>> THEN [found |-> FALSE, out |-> <<>>, texts |-> texts]
    ELSE IF Head(items).type # "message" THEN ScanItems(Tail(items), texts)
    ELSE LET r == ScanContent(Head(items).content, texts)
         IN  IF r.found THEN r ELSE ScanItems(Tail(items), r.texts)

\* _extract_output_text(response_json), for an envelope that is an object.
ExtractOutputText(env) ==
    LET r == ScanItems(env.output, <<>>)
    IN  IF r.found THEN r.out ELSE Strip(JoinNonEmpty(r.texts))

\* What a call of _call_openai can end with: an HTTPError, another exception
\* (URLError, timeout, a body that is not JSON), or the parsed envelope.
HttpError(code) == [kind |-> "http_error", code |-> code, env |-> EnvelopeNotDict]
TransportError == [kind |-> "error", code |-> 0, env |-> EnvelopeNotDict]
Returned(env) == [kind |-> "ok", code |-> 200, env |-> env]

OneText(text) == Returned(Envelope(<<Message(<<TextBlock(text)>>)>>))

\* The outcomes the model's API produces.
Outcomes ==
    {HttpError(500), TransportError, Returned(EnvelopeNotDict)}
    \cup {OneText(<<a>>) : a \in DocAtoms \ {DocNull, DocFailBare}}
    \cup {OneText(<<>>), OneText(<<"oops">>),
          Returned(Envelope(<<Message(<<TextBlock(<<"oops">>),
                                        JsonBlock(JsonValue(DocOkXY))>>)>>))}

\* The entry of the operation log for an operation that had no call outcome.
NoOutcome == [kind |-> "none", code |-> 0, env |-> EnvelopeNotDict]

\* ------------------------------------------------- configuration and notes

\* The add-on configurations _get_config may return, each with the
\* OPENAI_ANKI_API_KEY environment variable beside it.
Configs ==
    {[openai_anki_api_key |-> <<" ">>, openai_api_key |-> <<>>, env |-> <<>>, debug |-> TRUE],
     [openai_anki_api_key |-> <<>>, openai_api_key |-> <<" ">>, env |-> <<"sk", " ">>, debug |-> FALSE]}

\* _get_api_key(config): the first of the three that is non-empty once stripped.
GetApiKey(config) ==
    IF Strip(config.openai_anki_api_key) # <<>> THEN Strip(config.openai_anki_api_key)
    ELSE IF Strip(config.openai_api_key) # <<>> THEN Strip(config.openai_api_key)
    ELSE IF Strip(config.env) # <<>> THEN Strip(config.env)
    ELSE <<>>

\* The configured buttons; field_map is the ordered list of
\* <<response_key, field_name>> pairs.
Buttons ==
    << [prompt_id |-> <<"pmpt">>, field_map |-> << <<"x", "Front">>, <<"y", "Back">> >>],
       [prompt_id |-> <<"pmpt">>, field_map |-> << <<"x", "Extra">>, <<"y", "Back">> >>],
       [prompt_id |-> <<"pmpt", " ">>, field_map |-> <<>>],
       [prompt_id |-> <<" ">>, field_map |-> << <<"x", "Front">> >>] >>

ButtonIds == DOMAIN Buttons

\* The prompt id taken as configured, without .strip().
PromptIdUnstripped(b) == Buttons[b].prompt_id

\* (button_cfg.get("prompt_id") or "").strip()
PromptId(b) == Strip(Buttons[b].prompt_id)

\* Note objects. A note that is not yet in the collection has id 0.
NoNote == 0
SavedNotes == {1, 2, 3}
UnsavedNotes == {4, 5}
NoteRefs == SavedNotes \cup UnsavedNotes

InitNotes ==
    [n \in NoteRefs |->
        [id |-> IF n \in SavedNotes THEN n ELSE 0,
         fields |-> IF n = 2 THEN [Front |-> <<"q">>]
                    ELSE [Front |-> <<"q">>, Back |-> <<"a">>]]]

\* The selections browser.selectedNotes() may return.
Selections == {<<>>, <<2>>, <<1, 3>>, <<3, 2, 1>>}

\* ----------------------------------------------------------------- state

VARIABLES
    config,         \* the add-on configuration (and environment) of this run
    notes,          \* note object -> [id, fields]
    editor_note,    \* the note loaded in the editor, or NoNote
    n_requests,     \* editor button presses that were dispatched
    pending,        \* bag of single-item requests whose on_done has not run
    single_calls,   \* _call_openai calls made by single-item tasks
    progress_open,  \* mw.progress.start calls not yet finished
    ui,             \* what the last foreground handler showed
    bulk,           \* the bulk run
    last,           \* log: the step just taken and what it did
    probe           \* a call of one of the pure helpers: its input and result

vars ==
    <<config, notes, editor_note, n_requests, pending, single_calls,
      progress_open, ui, bulk, last, probe>>

Warning(msg, args) == [kind |-> "warning", msg |-> msg, args |-> args]
Tooltip(msg, args) == [kind |-> "tooltip", msg |-> msg, args |-> args]
\* An exception that leaves a foreground callback.
Uncaught(msg) == [kind |-> "exception", msg |-> msg, args |-> <<>>]

MsgNoKey == "OpenAI API key not set. Set openai_anki_api_key in config or OPENAI_ANKI_API_KEY."
MsgNoPromptId == "Button is missing prompt_id."
MsgNoNote == "No note is loaded in the editor."
MsgNoText == "OpenAI returned no text output."
MsgBadJson == "OpenAI response was not valid JSON."
MsgFallback == "OpenAI reported success=false."
MsgNoteChanged == "Note changed before response returned; no updates applied."
MsgHttp == "OpenAI request failed (HTTP)."
MsgHttpBody == "OpenAI request failed (HTTP) with body."
MsgRequestFailed == "OpenAI request failed. See console for details."
MsgUpdated == "Updated fields"
MsgNotUpdated == "No fields were updated."
MsgMissingKeys == "Missing response keys"
MsgMissingFields == "Missing note fields"
MsgNoSelection == "No notes selected."
MsgBulkFailed == "Bulk update failed. See console for details."
MsgSummary == "Updated, Skipped, Failed"
MsgCancelledSummary == "Cancelled. Updated, Skipped, Failed"

\* A log entry: the operation, the button it ran for, the note it was about
\* (for on_done: the note that was loaded when the request was issued), the
\* outcome of the call it handled, the notes whose fields it assigned and the
\* notes it persisted (flush or saveNow).
Op(act, b, note, o, wrote, saved) ==
    [act |-> act, b |-> b, note |-> note, o |-> o, wrote |-> wrote, saved |-> saved]

BulkIdle ==
    [pc |-> "idle", b |-> 1, note_ids |-> <<>>, idx |-> 1,
     updated |-> 0, skipped |-> 0, failed |-> 0, cancelled |-> FALSE,
     cancel_event |-> FALSE, dialog |-> FALSE, calls |-> <<>>, progress |-> <<>>,
     written |-> {}, cancel_at |-> "", cancel_idx |-> 0]

\* No helper has been called on its own.
NoProbe ==
    [op |-> "none", segs |-> <<>>, template |-> <<>>, note |-> 1, text |-> <<>>,
     env |-> Envelope(<<>>), out |-> <<>>, input |-> FALSE]

Init ==
    /\ probe = NoProbe
    /\ config \in Configs
    /\ notes = InitNotes
    /\ editor_note = NoNote
    /\ n_requests = 0
    /\ pending = EmptyBag
    /\ single_calls = 0
    /\ progress_open = 0
    /\ ui = <<>>
    /\ bulk = BulkIdle
    /\ last = Op("none", 1, NoNote, NoOutcome, {}, {})

\* The functions handed to run_in_background (the task of _run_button and the
\* task of _run_button_bulk, loop body included) run on a worker thread;
\* every other step runs on the foreground thread.
OnBackground(act) == act \in {"task", "iteration", "call_return"}

\* ------------------------------------------------------ response processor

\* A gate that lets every truthy value of "success" pass ("if not success").
SuccessIsTruthy(result) == Truthy(DictGet(result, "success"))

\* "success is not True" is the gate: only the JSON value true passes.
SuccessIsTrue(result) == DictGet(result, "success") = JTrue

\* result.get("error") or result.get("message") or the fixed text
FailureMessage(result) ==
    IF Truthy(DictGet(result, "error"))
    THEN Warning("result.error", PyStr(DictGet(result, "error")))
    ELSE IF Truthy(DictGet(result, "message"))
    THEN Warning("result.message", PyStr(DictGet(result, "message")))
    ELSE Warning(MsgFallback, <<>>)

\* "editor.note is None or editor.note.id != note_id"
NoteChanged(loaded, note_id) ==
    loaded = NoNote \/ notes[loaded].id # note_id

\* A turn of the loop that reads result.get(response_key, "") and so writes
\* an empty text for a missing key.
ApplyPairDefaulting(acc, pair, result) ==
    LET response_key == pair[1]
        field_name == pair[2]
    IN  IF field_name \notin DOMAIN acc.fields
        THEN [acc EXCEPT !.missing_fields = Append(@, field_name)]
        ELSE [acc EXCEPT !.fields = [@ EXCEPT ![field_name] =
                                        IF response_key \in result.keys
                                        THEN PyStr(result.val[response_key]) ELSE <<>>],
                         !.updated = Append(@, field_name)]

\* One turn of the loop over field_map.items() in _handle_response.
ApplyPair(acc, pair, result) ==
    LET response_key == pair[1]
        field_name == pair[2]
    IN  IF response_key \notin result.keys
        THEN [acc EXCEPT !.missing_keys = Append(@, response_key)]
        ELSE IF field_name \notin DOMAIN acc.fields
        THEN [acc EXCEPT !.missing_fields = Append(@, field_name)]
        ELSE [acc EXCEPT !.fields = [@ EXCEPT ![field_name] = PyStr(result.val[response_key])],
                         !.updated = Append(@, field_name)]

RECURSIVE ApplyFieldMap(_, _, _)
ApplyFieldMap(field_map, result, acc) ==
    IF field_map = <<>> THEN acc
    ELSE ApplyFieldMap(Tail(field_map), result, ApplyPair(acc, Head(field_map), result))

StartAcc(fields) ==
    [fields |-> fields, updated |-> <<>>, missing_keys |-> <<>>, missing_fields |-> <<>>]

\* The notices after the field loop: the same two warnings follow the tooltip
\* in after_save and in the branch that saves nothing.
Notices(acc) ==
    (IF acc.missing_keys # <<>> THEN <<Warning(MsgMissingKeys, acc.missing_keys)>> ELSE <<>>)
    \o (IF acc.missing_fields # <<>> THEN <<Warning(MsgMissingFields, acc.missing_fields)>> ELSE <<>>)

\* Persisting after every field loop, whether or not a field was updated.
ShouldSaveAlways(acc) == TRUE

\* Whether the note is persisted after the field loop ("if updated_fields:").
ShouldSave(acc) == acc.updated # <<>>

\* _handle_response(editor, note_id, button_cfg, response_json, config), as
\* what it shows, whether it reaches the field loop on the loaded note and
\* with which fields it leaves it, and whether it persists the note.
HandleResponse(note_id, b, env) ==
    LET quiet(messages) ==
            [ui |-> messages, write |-> FALSE, save |-> FALSE, fields |-> <<>>]
    IN  IF env.kind # "object" THEN quiet(<<Uncaught("AttributeError")>>)
        ELSE LET output_text == ExtractOutputText(env)
                 parsed == JsonLoads(output_text)
                 result == parsed.value
             IN  IF output_text = <<>> THEN quiet(<<Warning(MsgNoText, <<>>)>>)
                 ELSE IF ~parsed.ok THEN quiet(<<Warning(MsgBadJson, <<>>)>>)
                 ELSE IF ~IsDict(result) THEN quiet(<<Uncaught("AttributeError")>>)
                 ELSE IF ~SuccessIsTrue(result) THEN quiet(<<FailureMessage(result)>>)
                 ELSE IF NoteChanged(editor_note, note_id)
                 THEN quiet(<<Warning(MsgNoteChanged, <<>>)>>)
                 ELSE LET acc == ApplyFieldMap(Buttons[b].field_map, result,
                                               StartAcc(notes[editor_note].fields))
                      IN  IF ShouldSave(acc)
                          THEN [ui |-> <<Tooltip(MsgUpdated, acc.updated)>> \o Notices(acc),
                                write |-> TRUE, save |-> TRUE, fields |-> acc.fields]
                          ELSE [ui |-> <<Tooltip(MsgNotUpdated, <<>>)>> \o Notices(acc),
                                write |-> acc.fields # notes[editor_note].fields,
                                save |-> FALSE, fields |-> acc.fields]

\* -------------------------------------------------------- single-item flow

\* The editor is in use only while no bulk run has been started from the
\* browser: a behaviour follows one of the two flows, which share nothing but
\* the notes (and the bulk progress dialog is application-modal).
EditorInUse == bulk.pc = "idle"
\* The browser's bulk action is used only in behaviours that leave the editor
\* alone.
BrowserInUse == n_requests = 0 /\ editor_note = NoNote

\* The three preconditions of _run_button, in the order it tests them: the
\* message of the first that fails, or "" when the request is dispatched.
SinglePrecondition(b) ==
    IF GetApiKey(config) = <<>> THEN MsgNoKey
    ELSE IF PromptId(b) = <<>> THEN MsgNoPromptId
    ELSE IF editor_note = NoNote THEN MsgNoNote
    ELSE ""

\* _run_button(editor, button_cfg): the preconditions, then the request is
\* captured (note_id = editor.note.id) and handed to the background.
RunButton(b) ==
    /\ EditorInUse
    /\ n_requests < MaxRequests
    /\ IF SinglePrecondition(b) # ""
       THEN /\ ui' = <<Warning(SinglePrecondition(b), <<>>)>>
            /\ UNCHANGED <<n_requests, pending, progress_open>>
       ELSE /\ n_requests' = n_requests + 1
            /\ pending' = pending (+) SetToBag(
                  {[b |-> b, note_id |-> notes[editor_note].id,
                    target |-> editor_note, stage |-> "queued"]})
            /\ progress_open' = progress_open + 1
            /\ ui' = <<>>
    /\ last' = Op("run_button", b, NoNote, NoOutcome, {}, {})
    /\ UNCHANGED <<probe, config, notes, editor_note, single_calls, bulk>>

\* The background task of _run_button: one call of _call_openai.
SingleTask(r) ==
    /\ BagIn(r, pending)
    /\ r.stage = "queued"
    /\ pending' = (pending (-) SetToBag({r})) (+) SetToBag({[r EXCEPT !.stage = "called"]})
    /\ single_calls' = single_calls + 1
    /\ last' = Op("task", 1, NoNote, NoOutcome, {}, {})
    /\ UNCHANGED <<probe, config, notes, editor_note, n_requests, progress_open, ui, bulk>>

\* on_done of _run_button, on the foreground thread, for a call that ended
\* with outcome o.
SingleOnDone(r, o) ==
    /\ BagIn(r, pending)
    /\ r.stage = "called"
    /\ pending' = pending (-) SetToBag({r})
    /\ progress_open' = progress_open - 1
    /\ IF o.kind = "http_error"
       THEN /\ ui' = <<Warning(IF config.debug THEN MsgHttpBody ELSE MsgHttp, <<>>)>>
            /\ notes' = notes
            /\ last' = Op("on_done", r.b, r.target, o, {}, {})
       ELSE IF o.kind = "error"
       THEN /\ ui' = <<Warning(MsgRequestFailed, <<>>)>>
            /\ notes' = notes
            /\ last' = Op("on_done", r.b, r.target, o, {}, {})
       ELSE LET h == HandleResponse(r.note_id, r.b, o.env)
            IN  /\ ui' = h.ui
                /\ notes' = IF h.write
                            THEN [notes EXCEPT ![editor_note].fields = h.fields]
                            ELSE notes
                /\ last' = Op("on_done", r.b, r.target, o,
                              IF h.write THEN {editor_note} ELSE {},
                              IF h.save THEN {editor_note} ELSE {})
    /\ UNCHANGED <<probe, config, editor_note, n_requests, single_calls, bulk>>

\* The notes the editor can show.
EditorNotes == {1, 4, 5}

\* The user (or the host) loads another note, or none, in the editor.
SwitchNote(n) ==
    /\ EditorInUse
    /\ n # editor_note
    /\ editor_note' = n
    /\ last' = Op("switch", 1, NoNote, NoOutcome, {}, {})
    /\ UNCHANGED <<probe, config, notes, n_requests, pending, single_calls,
                   progress_open, ui, bulk>>

NextSingle ==
    \/ \E b \in ButtonIds : RunButton(b)
    \/ \E r \in BagToSet(pending) : SingleTask(r)
    \/ \E r \in BagToSet(pending), o \in Outcomes : SingleOnDone(r, o)
    \/ \E n \in EditorNotes \cup {NoNote} : SwitchNote(n)

\* --------------------------------------------------------------- bulk flow

Total == Len(bulk.note_ids)
Counted == bulk.updated + bulk.skipped + bulk.failed

\* "[f for f in field_map.values() if f not in note]"
MissingTargetFields(field_map, fields) ==
    {field_map[i][2] : i \in DOMAIN field_map} \ DOMAIN fields

\* An up-front test that forgets the notes that lack a target field.
SkippedOnlyWithoutMap(field_map, fields) == field_map = <<>>

\* Whether a note is skipped before any call: no field map, or a target field
\* that the note does not have.
SkippedUpFront(field_map, fields) ==
    field_map = <<>> \/ MissingTargetFields(field_map, fields) # {}

\* One turn of the loop over field_map.items() in the bulk task.
ApplyPairBulk(acc, pair, result) ==
    LET response_key == pair[1]
        field_name == pair[2]
    IN  IF response_key \notin result.keys
        THEN [acc EXCEPT !.missing_keys = Append(@, response_key)]
        ELSE [acc EXCEPT !.fields = [@ EXCEPT ![field_name] = PyStr(result.val[response_key])],
                         !.updated = Append(@, field_name)]

RECURSIVE ApplyFieldMapBulk(_, _, _)
ApplyFieldMapBulk(field_map, result, acc) ==
    IF field_map = <<>> THEN acc
    ELSE ApplyFieldMapBulk(Tail(field_map), result, ApplyPairBulk(acc, Head(field_map), result))

\* What the rest of an iteration does with the outcome of its call:
\* "failed" (counted, next note), "raised" (an exception leaves the task),
\* "updated" or "skipped" (the field loop ran; fields holds its result).
BulkHandle(b, fields, o) ==
    LET ends(how) == [how |-> how, fields |-> fields]
    IN  IF o.kind \in {"http_error", "error"} THEN ends("failed")
        ELSE IF o.env.kind # "object" THEN ends("raised")
        ELSE LET output_text == ExtractOutputText(o.env)
                 parsed == JsonLoads(output_text)
                 response == parsed.value
             IN  IF output_text = <<>> THEN ends("failed")
                 ELSE IF ~parsed.ok THEN ends("failed")
                 ELSE IF ~IsDict(response) THEN ends("raised")
                 ELSE IF ~SuccessIsTrue(response) THEN ends("failed")
                 ELSE LET acc == ApplyFieldMapBulk(Buttons[b].field_map, response,
                                                   StartAcc(fields))
                      IN  [how |-> IF acc.updated # <<>> THEN "updated" ELSE "skipped",
                           fields |-> acc.fields]

\* Whether the progress update at the end of the loop body is reached by an
\* iteration that ended this way: every "continue" above it passes it by.
ReachesProgress(how) == how \in {"updated", "skipped"}

\* The preconditions of _run_button_bulk, in the order it tests them: the
\* message of the first that fails, or "" when the run is started.
BulkPrecondition(b, sel) ==
    IF GetApiKey(config) = <<>> THEN MsgNoKey
    ELSE IF PromptId(b) = <<>> THEN MsgNoPromptId
    ELSE IF sel = <<>> THEN MsgNoSelection
    ELSE ""

\* _run_button_bulk(browser, button_cfg) up to run_in_background: the
\* preconditions, then the dialog is shown and the task queued.
RunButtonBulk(b, sel) ==
    /\ bulk.pc \in {"idle", "done"}
    /\ BrowserInUse
    /\ IF BulkPrecondition(b, sel) = MsgNoSelection
       THEN ui' = <<Tooltip(MsgNoSelection, <<>>)>> /\ bulk' = bulk
       ELSE IF BulkPrecondition(b, sel) # ""
       THEN ui' = <<Warning(BulkPrecondition(b, sel), <<>>)>> /\ bulk' = bulk
       ELSE /\ ui' = <<>>
            /\ bulk' = [BulkIdle EXCEPT !.pc = "loop", !.b = b,
                                        !.note_ids = sel, !.dialog = TRUE]
    /\ last' = Op("run_bulk", b, NoNote, NoOutcome, {}, {})
    /\ UNCHANGED <<probe, config, notes, editor_note, n_requests, pending, single_calls,
                   progress_open>>

\* A cancellation check that reads the result's flag instead of the event.
CancelReadFromResult == bulk.cancelled

\* "if cancel_event.is_set():" at the head of an iteration.
CancelObserved == bulk.cancel_event

\* The head of an iteration that passes a note skipped up front by without
\* counting it.
BulkIterStartUncounted ==
    /\ bulk.pc = "loop"
    /\ IF bulk.idx > Total
       THEN bulk' = [bulk EXCEPT !.pc = "returned"]
       ELSE IF CancelObserved
       THEN bulk' = [bulk EXCEPT !.cancelled = TRUE, !.pc = "returned"]
       ELSE LET note_id == bulk.note_ids[bulk.idx]
            IN  IF SkippedUpFront(Buttons[bulk.b].field_map, notes[note_id].fields)
                THEN bulk' = [bulk EXCEPT !.idx = @ + 1]
                ELSE bulk' = [bulk EXCEPT !.pc = "calling", !.calls = Append(@, note_id)]
    /\ last' = Op("iteration", 1, NoNote, NoOutcome, {}, {})
    /\ UNCHANGED <<probe, config, notes, editor_note, n_requests, pending, single_calls,
                   progress_open, ui>>

\* The head of one iteration of the task's loop, up to the call of
\* _call_openai (or the return of the task when the selection is exhausted).
BulkIterStart ==
    /\ bulk.pc = "loop"
    /\ IF bulk.idx > Total
       THEN bulk' = [bulk EXCEPT !.pc = "returned"]
       ELSE IF CancelObserved
       THEN bulk' = [bulk EXCEPT !.cancelled = TRUE, !.pc = "returned"]
       ELSE LET note_id == bulk.note_ids[bulk.idx]
            IN  IF SkippedUpFront(Buttons[bulk.b].field_map, notes[note_id].fields)
                THEN bulk' = [bulk EXCEPT !.skipped = @ + 1, !.idx = @ + 1]
                ELSE bulk' = [bulk EXCEPT !.pc = "calling", !.calls = Append(@, note_id)]
    /\ last' = Op("iteration", 1, NoNote, NoOutcome, {}, {})
    /\ UNCHANGED <<probe, config, notes, editor_note, n_requests, pending, single_calls,
                   progress_open, ui>>

\* The call of the current iteration ends with outcome o, and the iteration
\* runs to its end.
BulkCallReturn(o) ==
    /\ bulk.pc = "calling"
    /\ LET note_id == bulk.note_ids[bulk.idx]
           h == BulkHandle(bulk.b, notes[note_id].fields, o)
           posted == IF ReachesProgress(h.how) THEN Append(bulk.progress, bulk.idx)
                     ELSE bulk.progress
           wrote == IF h.fields # notes[note_id].fields THEN {note_id} ELSE {}
       IN  /\ notes' = [notes EXCEPT ![note_id].fields = h.fields]
           /\ last' = Op("call_return", bulk.b, note_id, o, wrote,
                         IF h.how = "updated" THEN {note_id} ELSE {})
           /\ bulk' = CASE h.how = "raised" -> [bulk EXCEPT !.pc = "raised"]
                        [] h.how = "failed" ->
                             [bulk EXCEPT !.pc = "loop", !.failed = @ + 1, !.idx = @ + 1,
                                          !.progress = posted]
                        [] h.how = "skipped" ->
                             [bulk EXCEPT !.pc = "loop", !.skipped = @ + 1, !.idx = @ + 1,
                                          !.progress = posted]
                        [] OTHER ->
                             [bulk EXCEPT !.pc = "loop", !.updated = @ + 1, !.idx = @ + 1,
                                          !.progress = posted,
                                          !.written = @ \cup {note_id}]
    /\ UNCHANGED <<probe, config, editor_note, n_requests, pending, single_calls,
                   progress_open, ui>>

\* The user presses Cancel in the progress dialog: cancel_event.set(). The
\* log fields cancel_at and cancel_idx keep where the task was at that time.
Cancel ==
    /\ bulk.dialog
    /\ ~bulk.cancel_event
    /\ bulk' = [bulk EXCEPT !.cancel_event = TRUE, !.cancel_at = bulk.pc,
                             !.cancel_idx = bulk.idx]
    /\ last' = Op("cancel", 1, NoNote, NoOutcome, {}, {})
    /\ UNCHANGED <<probe, config, notes, editor_note, n_requests, pending, single_calls,
                   progress_open, ui>>

\* on_done of _run_button_bulk, on the foreground thread.
BulkOnDone ==
    /\ bulk.pc \in {"returned", "raised"}
    /\ ui' = IF bulk.pc = "raised" THEN <<Warning(MsgBulkFailed, <<>>)>>
             ELSE <<Tooltip(IF bulk.cancelled THEN MsgCancelledSummary ELSE MsgSummary,
                            <<ToString(bulk.updated), ToString(bulk.skipped),
                              ToString(bulk.failed)>>)>>
    /\ bulk' = [bulk EXCEPT !.pc = "done", !.dialog = FALSE]
    /\ last' = Op("bulk_done", 1, NoNote, NoOutcome, {}, {})
    /\ UNCHANGED <<probe, config, notes, editor_note, n_requests, pending, single_calls,
                   progress_open>>

NextBulk ==
    \/ \E b \in ButtonIds, sel \in Selections : RunButtonBulk(b, sel)
    \/ BulkIterStart
    \/ \E o \in Outcomes : BulkCallReturn(o)
    \/ Cancel
    \/ BulkOnDone

Next == NextSingle \/ NextBulk

Spec == Init /\ [][Next]_vars

\* ---------------------------------------------------------- prompt builder

\* str.lower() on the atoms that carry the letters of "json".
Lower(a) ==
    CASE a = "JSON" -> "json"
      [] a = "Json" -> "json"
      [] a = "JS" -> "js"
      [] a = "ON" -> "on"
      [] OTHER -> a

\* The characters of a lower-case atom; an atom without the letters of
\* "json" counts as one character.
Letters(a) ==
    CASE a = "json" -> <<"j", "s", "o", "n">>
      [] a = "js" -> <<"j", "s">>
      [] a = "on" -> <<"o", "n">>
      [] OTHER -> <<a>>

\* text.lower(), character by character.
RECURSIVE LowerLetters(_)
LowerLetters(text) ==
    IF text = <<>> THEN <<>>
    ELSE Letters(Lower(Head(text))) \o LowerLetters(Tail(text))

\* "json" in text.lower()
ContainsJson(text) ==
    LET c == LowerLetters(text)
    IN  \E i \in 1..(Len(c) - 3) : SubSeq(c, i, i + 3) = <<"j", "s", "o", "n">>

\* "Return output as JSON."
Instruction == <<"Return output as ", "JSON", ".">>

\* An instruction appender without the test for "json".
AlwaysAppendInstruction(text) ==
    IF text = <<>> THEN Instruction ELSE text \o <<"\n", "\n">> \o Instruction

\* _ensure_json_instruction(text)
EnsureJsonInstruction(text) ==
    IF ContainsJson(text) THEN text
    ELSE IF text = <<>> THEN Instruction
    ELSE text \o <<"\n", "\n">> \o Instruction

\* Where the leftmost match of {{(.*?)}} at the head of t ends: the position
\* of the first "}}" after the opening "{{", provided no line break lies
\* between them ("." does not match a line break); 0 when t does not start
\* with a match.
MatchEnd(t) ==
    IF Len(t) < 4 \/ t[1] # "{" \/ t[2] # "{" THEN 0
    ELSE LET closing == {j \in 3..(Len(t) - 1) : t[j] = "}" /\ t[j + 1] = "}"}
         IN  IF closing = {} THEN 0
             ELSE LET j == CHOOSE m \in closing : \A k \in closing : m <= k
                  IN  IF \E k \in 3..(j - 1) : t[k] = "\n" THEN 0 ELSE j

\* replace(match): the field named by the stripped group, or "" when the
\* note has no such field. A field name is one atom.
Replace(group, fields) ==
    LET field_name == Strip(group)
    IN  IF Len(field_name) = 1 /\ field_name[1] \in DOMAIN fields
        THEN fields[field_name[1]]
        ELSE <<>>

\* re.sub(r"{{(.*?)}}", replace, template): matches are taken left to right
\* and the replacement text is not scanned again.
RECURSIVE ReSub(_, _)
ReSub(t, fields) ==
    IF t = <<>> THEN <<>>
    ELSE LET j == MatchEnd(t)
         IN  IF j > 0
             THEN Replace(SubSeq(t, 3, j - 1), fields) \o ReSub(SubSeq(t, j + 2, Len(t)), fields)
             ELSE <<Head(t)>> \o ReSub(Tail(t), fields)

\* _expand_fields(template, note, config)
ExpandFields(template, fields) ==
    IF template = <<>> THEN <<>> ELSE ReSub(template, fields)

\* The prompt text _run_button and the bulk task hand to _call_openai.
BuildPrompt(template, fields) ==
    EnsureJsonInstruction(ExpandFields(template, fields))

\* Whether the payload of _call_openai carries "input" ("if prompt_text:").
PayloadHasInput(prompt_text) == prompt_text # <<>>

\* ------------------------------------------------- the helpers on their own

\* Bounds of the inputs the helpers are called with.
MaxSegs == 2
MaxText == 2
MaxItems == 2
MaxBlocks == 3

\* All sequences over S of length at most n.
SeqsUpTo(S, n) == UNION {[1..k -> S] : k \in 0..n}

RECURSIVE Flatten(_)
Flatten(seqs) ==
    IF seqs = <<>> THEN <<>> ELSE Head(seqs) \o Flatten(Tail(seqs))

\* The pieces templates are made of: literal text, and placeholders
\* "{{" lpad name rpad "}}".
Literal(text) == [lit |-> TRUE, text |-> text, name |-> "", lpad |-> <<>>, rpad |-> <<>>]
Placeholder(lpad, name, rpad) ==
    [lit |-> FALSE, text |-> <<"{", "{">> \o lpad \o <<name>> \o rpad \o <<"}", "}">>,
     name |-> name, lpad |-> lpad, rpad |-> rpad]

Segments ==
    {Literal(<<"hi">>), Literal(<<" ">>)}
    \cup {Placeholder(l, n, r) : l \in {<<>>, <<" ">>}, n \in {"Front", "Back"},
                                 r \in {<<>>, <<"\n">>}}

TemplateOf(segs) == Flatten([i \in DOMAIN segs |-> segs[i].text])

\* The notes the helpers are called with: note 1 has Front and Back, note 2
\* only Front.
ProbeNotes == {1, 2}

EnsureAtoms == {"hi", "JS", "ON", "Json", "\n"}

ProbeBlocks ==
    {TextBlock(<<"a">>), TextBlock(<<" ", "b">>), TextBlock(<<>>),
     JsonBlock(JsonValue(DocOkX)), JsonBlock(JOther("null")), OtherBlock}

mainvars ==
    <<config, notes, editor_note, n_requests, pending, single_calls,
      progress_open, ui, bulk, last>>

\* _expand_fields called on a template and a note.
CallExpandFields(segs, n) ==
    /\ probe.op = "none"
    /\ probe' = [NoProbe EXCEPT !.op = "expand", !.segs = segs,
                                !.template = TemplateOf(segs), !.note = n,
                                !.out = ExpandFields(TemplateOf(segs), notes[n].fields)]
    /\ UNCHANGED mainvars

\* _ensure_json_instruction called on a text.
CallEnsureJsonInstruction(text) ==
    /\ probe.op = "none"
    /\ probe' = [NoProbe EXCEPT !.op = "ensure", !.text = text,
                                !.out = EnsureJsonInstruction(text)]
    /\ UNCHANGED mainvars

\* The prompt built for a button's template and a note, and the payload
\* _call_openai makes of it.
CallBuildPrompt(segs, n) ==
    /\ probe.op = "none"
    /\ LET prompt_text == BuildPrompt(TemplateOf(segs), notes[n].fields)
       IN  probe' = [NoProbe EXCEPT !.op = "build", !.segs = segs,
                                    !.template = TemplateOf(segs), !.note = n,
                                    !.out = prompt_text,
                                    !.input = PayloadHasInput(prompt_text)]
    /\ UNCHANGED mainvars

BlockCount(items) == Len(Flatten([i \in DOMAIN items |-> items[i].content]))

\* _extract_output_text called on an envelope that has one more (empty)
\* output item than the last one it was called on.
ExtractWithItem(type) ==
    /\ probe.op \in {"none", "extract"}
    /\ Len(probe.env.output) < MaxItems
    /\ LET env == Envelope(Append(probe.env.output, [type |-> type, content |-> <<>>]))
       IN  probe' = [NoProbe EXCEPT !.op = "extract", !.env = env,
                                    !.out = ExtractOutputText(env)]
    /\ UNCHANGED mainvars

\* _extract_output_text called on an envelope that has one more content
\* block in its last item.
ExtractWithBlock(block) ==
    /\ probe.op = "extract"
    /\ BlockCount(probe.env.output) < MaxBlocks
    /\ LET items == probe.env.output
           env == Envelope([items EXCEPT ![Len(items)].content = Append(@, block)])
       IN  probe' = [NoProbe EXCEPT !.op = "extract", !.env = env,
                                    !.out = ExtractOutputText(env)]
    /\ UNCHANGED mainvars

HelperNext ==
    \/ \E segs \in SeqsUpTo(Segments, MaxSegs), n \in ProbeNotes : CallExpandFields(segs, n)
    \/ \E text \in SeqsUpTo(EnsureAtoms, MaxText) : CallEnsureJsonInstruction(text)
    \/ \E segs \in SeqsUpTo(Segments, MaxSegs), n \in ProbeNotes : CallBuildPrompt(segs, n)
    \/ \E type \in {"message", "reasoning"} : ExtractWithItem(type)
    \/ \E block \in ProbeBlocks : ExtractWithBlock(block)

\* The helpers called on their own, on the notes of the initial state; the
\* helpers under study do not read the configuration.
HelperInit == Init /\ ~config.debug

HelperSpec == HelperInit /\ [][HelperNext]_vars

\* ------------------------------------------------------------- properties

Range(seq) == {seq[i] : i \in DOMAIN seq}

\* The call ended with a response whose extracted text is non-empty, parses
\* as JSON, and is an object whose "success" is the value true.
DeclaresSuccess(o) ==
    /\ o.kind = "ok"
    /\ o.env.kind = "object"
    /\ ExtractOutputText(o.env) # <<>>
    /\ JsonLoads(ExtractOutputText(o.env)).ok
    /\ JsonLoads(ExtractOutputText(o.env)).value.kind = "object"
    /\ "success" \in JsonLoads(ExtractOutputText(o.env)).value.keys
    /\ JsonLoads(ExtractOutputText(o.env)).value.val["success"] = JTrue

\* The parsed result of a call that declares success.
ResultOf(o) == JsonLoads(ExtractOutputText(o.env)).value

\* The step handled the outcome of an API call (in either flow).
HandledOutcome(l) == l.act \in {"on_done", "call_return"}

\* C1: in both flows a note's fields are assigned, or the note is persisted,
\* only by a step that handles a call outcome declaring success (non-empty
\* text, valid JSON, success = true); every other step, and the handling of
\* any other outcome, leaves all notes as they were.
C1_OnlySuccessMutates ==
    [][(notes' # notes \/ last'.wrote # {} \/ last'.saved # {})
         => (HandledOutcome(last') /\ DeclaresSuccess(last'.o))]_vars

\* C1 witness: an outcome that does not declare success (a response with a
\* truthy "success" that is not true) was handled and nothing was written.
C1_Witness ==
    /\ HandledOutcome(last)
    /\ last.o = OneText(<<DocTruthy>>)
    /\ last.wrote = {} /\ last.saved = {}
    /\ notes = InitNotes

\* C2 (as claimed): the single-item on_done writes and persists no note but
\* the one that was loaded when the request was issued, and when another note
\* (or none) is loaded at that time it shows the "note changed" warning.
C2_ResponseOnlyToIssuedNote ==
    last.act = "on_done" =>
        /\ (last.wrote \cup last.saved) \subseteq {last.note}
        /\ (DeclaresSuccess(last.o) /\ editor_note # last.note)
              => ui = <<Warning(MsgNoteChanged, <<>>)>>

\* C3 (as claimed): in a bulk run the handling of an HTTP or transport error,
\* or of a response whose text is empty, is not JSON, or is JSON of any shape
\* that does not declare success, counts the note as failed and goes on to
\* the next note.
C3_FailureNeverAborts ==
    [][(/\ last'.act = "call_return"
        /\ ~DeclaresSuccess(last'.o)
        /\ last'.o.kind = "ok" => last'.o.env.kind = "object")
         => (/\ bulk'.failed = bulk.failed + 1
             /\ bulk'.idx = bulk.idx + 1
             /\ bulk'.pc = "loop")]_vars

\* C4: when Cancel is pressed while the task is between two notes (note
\* cancel_idx - 1 is finished, note cancel_idx <= n not started), the task
\* never advances: it returns with cancelled = true and updated + skipped +
\* failed = cancel_idx - 1, and no call is made for, and no field written to,
\* the notes from cancel_idx on.
C4_CancelBetweenNotes ==
    (bulk.cancel_at = "loop" /\ bulk.cancel_idx <= Total) =>
        /\ bulk.idx = bulk.cancel_idx
        /\ bulk.pc \in {"loop", "returned", "done"}
        /\ bulk.pc \in {"returned", "done"}
              => (bulk.cancelled /\ Counted = bulk.cancel_idx - 1)
        /\ \A j \in bulk.cancel_idx..Total :
              /\ bulk.note_ids[j] \notin Range(bulk.calls)
              /\ bulk.note_ids[j] \notin bulk.written
        /\ Len(bulk.calls) <= bulk.cancel_idx - 1

\* C4 witness: Cancel was pressed after note 1 of 3 was finished and before
\* note 2 started, and the task has returned.
C4_Witness ==
    /\ bulk.cancel_at = "loop" /\ bulk.cancel_idx = 2 /\ Total = 3
    /\ bulk.pc = "returned"
    /\ bulk.calls # <<>>

\* C5 (as claimed): when Cancel is pressed while the call for note cancel_idx
\* is in flight, the call still ends and the note is handled to completion:
\* it is counted in exactly one counter, persisted when the response declares
\* success and updates a field, and the loop stops only before the next note.
C5_InFlightCallCompletes ==
    (/\ bulk.cancel_at = "calling"
     /\ bulk.pc # "calling"
     /\ ~(last.act = "call_return" /\ last.o = Returned(EnvelopeNotDict))) =>
        /\ bulk.pc \in {"loop", "returned", "done"}
        /\ bulk.idx = bulk.cancel_idx + 1
        /\ Counted = bulk.cancel_idx
        /\ Len(bulk.calls) <= bulk.cancel_idx
        /\ (last.act = "call_return" /\ DeclaresSuccess(last.o)
              /\ \E i \in DOMAIN Buttons[bulk.b].field_map :
                    Buttons[bulk.b].field_map[i][1] \in ResultOf(last.o).keys)
              => (last.saved = {last.note} /\ last.note \in bulk.written)

\* C6 (as claimed): every note the loop has handled, however it was counted,
\* has emitted a progress update with its 1-based index, in increasing order.
C6_ProgressAfterEveryNote ==
    bulk.pc \in {"loop", "returned", "done"} =>
        /\ Len(bulk.progress) = bulk.idx - 1
        /\ \A i \in DOMAIN bulk.progress : bulk.progress[i] = i

\* The API key is empty: none of the three places holds a non-blank text.
ApiKeyEmpty ==
    /\ Strip(config.openai_anki_api_key) = <<>>
    /\ Strip(config.openai_api_key) = <<>>
    /\ Strip(config.env) = <<>>

\* The button's prompt id is empty after trimming.
PromptIdEmpty(b) == Strip(Buttons[b].prompt_id) = <<>>

\* C7: a press of the editor button with an empty API key, a blank prompt id
\* or no note loaded, and a bulk action with an empty API key or a blank
\* prompt id, only shows the message of a failed precondition: no request is
\* queued, no call is made, no progress indicator or dialog is opened, no
\* bulk task is started and no note changes.
C7_FailedPreconditionDoesNothing ==
    [][/\ (last'.act = "run_button"
             /\ (ApiKeyEmpty \/ PromptIdEmpty(last'.b) \/ editor_note = NoNote))
          => /\ \E m \in ({MsgNoKey : x \in {1} \cap {y \in {1} : ApiKeyEmpty}}
                          \cup {MsgNoPromptId : x \in {1} \cap {y \in {1} : PromptIdEmpty(last'.b)}}
                          \cup {MsgNoNote : x \in {1} \cap {y \in {1} : editor_note = NoNote}}) :
                    ui' = <<Warning(m, <<>>)>>
             /\ UNCHANGED <<notes, pending, single_calls, progress_open, n_requests, bulk>>
       /\ (last'.act = "run_bulk" /\ (ApiKeyEmpty \/ PromptIdEmpty(last'.b)))
          => /\ \E m \in ({MsgNoKey : x \in {1} \cap {y \in {1} : ApiKeyEmpty}}
                          \cup {MsgNoPromptId : x \in {1} \cap {y \in {1} : PromptIdEmpty(last'.b)}}) :
                    ui' = <<Warning(m, <<>>)>>
             /\ UNCHANGED <<notes, pending, single_calls, progress_open, n_requests, bulk>>
      ]_vars

\* C7 witness: the button whose prompt id is blank was pressed with an API
\* key set and a note loaded, and the prompt-id message is shown.
C7_Witness ==
    /\ last.act = "run_button"
    /\ ~ApiKeyEmpty /\ editor_note # NoNote /\ PromptIdEmpty(last.b)
    /\ ui = <<Warning(MsgNoPromptId, <<>>)>>
    /\ pending = EmptyBag

\* The indices of the pairs of a field map whose response key is in the result.
KeyHits(field_map, result) ==
    {i \in DOMAIN field_map : field_map[i][1] \in result.keys}

\* The text a field holds after the field map was applied: that of the last
\* pair naming it whose key is in the result, or its old text.
ExpectedField(field_map, result, fields, f) ==
    LET hits == {i \in KeyHits(field_map, result) : field_map[i][2] = f}
    IN  IF hits = {} THEN fields[f]
        ELSE PyStr(result.val[field_map[CHOOSE m \in hits : \A i \in hits : i <= m][1]])

\* The field names recorded as updated / the keys recorded as missing / the
\* field names recorded as missing, each in field-map order.
ExpectedUpdated(field_map, result, fields) ==
    LET hit == SelectSeq(field_map,
                         LAMBDA p : p[1] \in result.keys /\ p[2] \in DOMAIN fields)
    IN  [i \in 1..Len(hit) |-> hit[i][2]]

ExpectedMissingKeys(field_map, result) ==
    LET miss == SelectSeq(field_map, LAMBDA p : p[1] \notin result.keys)
    IN  [i \in 1..Len(miss) |-> miss[i][1]]

ExpectedMissingFields(field_map, result, fields) ==
    LET miss == SelectSeq(field_map,
                          LAMBDA p : p[1] \in result.keys /\ p[2] \notin DOMAIN fields)
    IN  [i \in 1..Len(miss) |-> miss[i][2]]

\* The single-item on_done handled a success response while the loaded note
\* has the id the request captured.
SingleApplied(l) ==
    /\ l.act = "on_done"
    /\ DeclaresSuccess(l.o)
    /\ editor_note # NoNote
    /\ notes[editor_note].id = notes[l.note].id

\* The bulk task handled a success response for the note of the iteration.
BulkApplied(l) == l.act = "call_return" /\ DeclaresSuccess(l.o)

\* C8: when a success response is applied, every field of the note holds the
\* text of the result value of the (last) pair that names it and whose key is
\* in the result, every other field and every other note is as before, and
\* (single-item flow) the updated fields, the missing keys and the missing
\* fields are recorded pair by pair in field-map order.
C8_FieldMapApplied ==
    [][/\ SingleApplied(last') =>
            LET fm == Buttons[last'.b].field_map
                res == ResultOf(last'.o)
                old == notes[editor_note].fields
            IN  /\ DOMAIN notes'[editor_note].fields = DOMAIN old
                /\ \A f \in DOMAIN old :
                      notes'[editor_note].fields[f] = ExpectedField(fm, res, old, f)
                /\ \A n \in NoteRefs \ {editor_note} : notes'[n] = notes[n]
                /\ ui'[1] = IF ExpectedUpdated(fm, res, old) # <<>>
                            THEN Tooltip(MsgUpdated, ExpectedUpdated(fm, res, old))
                            ELSE Tooltip(MsgNotUpdated, <<>>)
                /\ ExpectedMissingKeys(fm, res) # <<>>
                      => Warning(MsgMissingKeys, ExpectedMissingKeys(fm, res)) \in Range(ui')
                /\ ExpectedMissingFields(fm, res, old) # <<>>
                      => Warning(MsgMissingFields, ExpectedMissingFields(fm, res, old))
                            \in Range(ui')
       /\ BulkApplied(last') =>
            LET fm == Buttons[last'.b].field_map
                res == ResultOf(last'.o)
                old == notes[last'.note].fields
            IN  /\ DOMAIN notes'[last'.note].fields = DOMAIN old
                /\ \A f \in DOMAIN old :
                      notes'[last'.note].fields[f] = ExpectedField(fm, res, old, f)
                /\ \A n \in NoteRefs \ {last'.note} : notes'[n] = notes[n]
      ]_vars

\* C8 witness: a success response that lacks key "y" was applied by the
\* button that maps x to Front and y to Back: Front was set, Back was not.
C8_Witness ==
    /\ SingleApplied(last)
    /\ last.b = 1
    /\ last.o = OneText(<<DocOkX>>)
    /\ notes[editor_note].fields = [Front |-> <<"v">>, Back |-> <<"a">>]
    /\ ui = <<Tooltip(MsgUpdated, <<"Front">>), Warning(MsgMissingKeys, <<"y">>)>>

\* C9: a note is persisted exactly when a success response updated at least
\* one mapped field. Single-item flow: otherwise nothing is saved and "No
\* fields were updated" is shown, and the missing-key and missing-field
\* notices appear exactly when there are such keys and fields, whether or not
\* a field was updated. Bulk flow: the note is flushed and counted updated,
\* or not flushed and counted skipped.
C9_PersistedIffUpdated ==
    [][/\ last'.saved # {} => (SingleApplied(last') \/ BulkApplied(last'))
       /\ SingleApplied(last') =>
            LET fm == Buttons[last'.b].field_map
                res == ResultOf(last'.o)
                old == notes[editor_note].fields
                mk == Warning(MsgMissingKeys, ExpectedMissingKeys(fm, res))
                mf == Warning(MsgMissingFields, ExpectedMissingFields(fm, res, old))
            IN  /\ last'.saved = IF ExpectedUpdated(fm, res, old) # <<>>
                                 THEN {editor_note} ELSE {}
                /\ ExpectedUpdated(fm, res, old) = <<>>
                      => ui'[1] = Tooltip(MsgNotUpdated, <<>>)
                /\ mk \in Range(ui') <=> ExpectedMissingKeys(fm, res) # <<>>
                /\ mf \in Range(ui') <=> ExpectedMissingFields(fm, res, old) # <<>>
       /\ BulkApplied(last') =>
            LET fm == Buttons[last'.b].field_map
                res == ResultOf(last'.o)
                old == notes[last'.note].fields
            IN  IF ExpectedUpdated(fm, res, old) # <<>>
                THEN /\ last'.saved = {last'.note}
                     /\ bulk'.updated = bulk.updated + 1
                     /\ bulk'.skipped = bulk.skipped
                ELSE /\ last'.saved = {}
                     /\ bulk'.updated = bulk.updated
                     /\ bulk'.skipped = bulk.skipped + 1
      ]_vars

\* C9 witness: a success response with none of the mapped keys was applied
\* in the editor: nothing was saved, "No fields were updated" and the
\* missing-key notice are shown.
C9_Witness ==
    /\ SingleApplied(last)
    /\ last.b = 1
    /\ last.o = OneText(<<DocOkNone>>)
    /\ last.saved = {}
    /\ ui = <<Tooltip(MsgNotUpdated, <<>>), Warning(MsgMissingKeys, <<"x", "y">>)>>

\* The notes of the selection whose iteration is over.
Finished ==
    IF bulk.pc \in {"calling", "raised"} THEN 1..(bulk.idx - 1)
    ELSE 1..(bulk.idx - 1) \cap DOMAIN bulk.note_ids

\* A note lacks a target field named in the field map of the bulk button.
LacksTarget(note_id) ==
    \E i \in DOMAIN Buttons[bulk.b].field_map :
        Buttons[bulk.b].field_map[i][2] \notin DOMAIN notes[note_id].fields

\* C10: in a bulk run no call is made for a note skipped up front. With no
\* field map, every finished note is counted skipped and the run has made no
\* call; a note that lacks a target field is counted skipped, is never
\* called and none of its fields is written.
C10_SkippedUpFrontNeverCalled ==
    bulk.pc # "idle" =>
        /\ Buttons[bulk.b].field_map = <<>>
              => /\ bulk.calls = <<>> /\ bulk.written = {}
                 /\ bulk.skipped = Cardinality(Finished)
                 /\ bulk.updated = 0 /\ bulk.failed = 0
                 /\ bulk.pc \in {"returned", "done"} /\ ~bulk.cancelled
                       => bulk.skipped = Total
        /\ \A j \in DOMAIN bulk.note_ids :
              LacksTarget(bulk.note_ids[j])
                 => /\ bulk.note_ids[j] \notin Range(bulk.calls)
                    /\ bulk.note_ids[j] \notin bulk.written
        /\ bulk.skipped >= Cardinality({j \in Finished : LacksTarget(bulk.note_ids[j])})

\* C10 witness: a run over notes 3, 2, 1 with the button that maps to Front
\* and Back has returned; note 2 has no Back field, was counted skipped and
\* was never called, while notes 3 and 1 were called.
C10_Witness ==
    /\ bulk.pc = "returned" /\ ~bulk.cancelled
    /\ bulk.b = 1 /\ bulk.note_ids = <<3, 2, 1>>
    /\ bulk.calls = <<3, 1>>
    /\ bulk.skipped = 1 /\ bulk.updated = 2

\* C11: every step that assigns a note field, persists a note or shows a
\* message runs on the foreground thread; the steps of the background tasks
\* (single-item and bulk) only call the API.
C11_MutationOnForegroundOnly ==
    [][(notes' # notes \/ last'.wrote # {} \/ last'.saved # {} \/ ui' # ui)
         => ~OnBackground(last'.act)]_vars

\* The terminal outcome a completion handler left, read from what it showed.
OutcomeClass(shown) ==
    IF shown = <<>> THEN "None"
    ELSE IF shown[1].kind = "exception" THEN "Escaped"
    ELSE IF shown[1].kind = "tooltip" THEN "Applied"
    ELSE IF shown[1].msg \in {MsgHttp, MsgHttpBody, MsgRequestFailed} THEN "Failed"
    ELSE "Rejected"

\* C12: every completion of a dispatched single-item request ends in exactly
\* one of Applied, Rejected, Failed, whatever the call did and whatever shape
\* the envelope and the parsed JSON have: Failed exactly when the call
\* raised, no exception leaves on_done, and the progress indicators open are
\* exactly those of the requests not yet completed.
C12_SingleReachesOneTerminal ==
    /\ progress_open = BagCardinality(pending)
    /\ last.act = "on_done" =>
          /\ OutcomeClass(ui) \in {"Applied", "Rejected", "Failed"}
          /\ OutcomeClass(ui) = "Failed" <=> last.o.kind # "ok"
          /\ OutcomeClass(ui) = "Applied" => DeclaresSuccess(last.o)

\* The call returned an envelope whose text is non-empty and parses as JSON,
\* and the parsed result does not have success = true.
ParsedWithoutSuccess(o) ==
    /\ o.kind = "ok"
    /\ o.env.kind = "object"
    /\ ExtractOutputText(o.env) # <<>>
    /\ JsonLoads(ExtractOutputText(o.env)).ok
    /\ ~DeclaresSuccess(o)

\* A result member that is a non-empty text.
NonEmptyMember(result, key) ==
    key \in result.keys /\ result.val[key].t = "str" /\ result.val[key].s # ""

\* The one message the claim expects for a result without success = true.
ExpectedFailure(result) ==
    IF NonEmptyMember(result, "error")
    THEN Warning("result.error", <<result.val["error"].s>>)
    ELSE IF NonEmptyMember(result, "message")
    THEN Warning("result.message", <<result.val["message"].s>>)
    ELSE Warning(MsgFallback, <<>>)

\* C17: single-item flow: when the parsed result does not have success =
\* true, no field is assigned, nothing is saved and exactly one message is
\* shown: the result's error if non-empty, else its message if non-empty,
\* else the fixed fallback text.
C17_FailureMessageChosen ==
    (last.act = "on_done" /\ ParsedWithoutSuccess(last.o)) =>
        /\ last.wrote = {} /\ last.saved = {}
        /\ ui = <<ExpectedFailure(ResultOf(last.o))>>

\* The position of a selected note in the selection.
Pos(note_id) == CHOOSE j \in DOMAIN bulk.note_ids : bulk.note_ids[j] = note_id

\* C18: no retries and no parallel calls. Single-item: at most one call per
\* dispatched request, and exactly one once its task has run. Bulk: the
\* calls made are for selected notes, each at most once, in selection order;
\* while a call is in flight it is the current note's and every earlier note
\* has been counted; when the task has ended, every note that was neither
\* skipped up front nor left out by a cancellation has had its call.
C18_OneCallPerNoteInOrder ==
    /\ single_calls <= n_requests
    /\ (\A r \in BagToSet(pending) : r.stage = "called") => single_calls = n_requests
    /\ bulk.pc # "idle" =>
          /\ Range(bulk.calls) \subseteq Range(bulk.note_ids)
          /\ \A i, k \in DOMAIN bulk.calls :
                i < k => Pos(bulk.calls[i]) < Pos(bulk.calls[k])
          /\ bulk.pc = "calling" =>
                /\ bulk.calls[Len(bulk.calls)] = bulk.note_ids[bulk.idx]
                /\ Counted = bulk.idx - 1
          /\ bulk.pc \in {"returned", "raised", "done"} =>
                \A j \in DOMAIN bulk.note_ids :
                    (/\ Buttons[bulk.b].field_map # <<>>
                     /\ ~LacksTarget(bulk.note_ids[j])
                     /\ (bulk.cancelled => j < bulk.idx))
                      => bulk.note_ids[j] \in Range(bulk.calls)

\* The summary is on display: on_done of a bulk run whose task returned.
SummaryShown ==
    /\ bulk.pc = "done"
    /\ ui # <<>>
    /\ ui[1].msg \in {MsgSummary, MsgCancelledSummary}

\* C19: bulk accounting: while the task runs and when it has returned,
\* updated + skipped + failed is the number of finished iterations and at
\* most the number of selected notes; when the task returned, the sum is the
\* number of selected notes if cancelled is false and strictly smaller if it
\* is true, and the summary shows these counters.
C19_BulkAccounting ==
    /\ bulk.pc \in {"loop", "calling", "returned"} =>
          /\ Counted = bulk.idx - 1
          /\ Counted <= Total
    /\ (bulk.pc = "returned" \/ SummaryShown) =>
          /\ ~bulk.cancelled => Counted = Total
          /\ bulk.cancelled => Counted < Total
    /\ SummaryShown =>
          ui[1].args = <<ToString(bulk.updated), ToString(bulk.skipped),
                         ToString(bulk.failed)>>

\* C19 witness: a run over three notes was cancelled after its second note:
\* one note updated, one skipped up front, the third not counted.
C19_Witness ==
    /\ bulk.pc = "returned" /\ bulk.cancelled
    /\ Total = 3 /\ bulk.updated = 1 /\ bulk.skipped = 1 /\ bulk.failed = 0

\* The cancellation was signalled while the last selected note was handled,
\* or after it.
CancelledTooLate ==
    \/ bulk.cancel_at = "calling" /\ bulk.cancel_idx = Total
    \/ bulk.cancel_at = "loop" /\ bulk.cancel_idx > Total
    \/ bulk.cancel_at = "returned"

\* C20: the result's cancelled flag is true only if the signal was set when
\* an iteration started for a note; a cancellation signalled during or after
\* the handling of the last selected note is never observed: the run returns
\* cancelled = false with every note counted and the summary does not say
\* "Cancelled".
C20_LateCancelNotObserved ==
    /\ bulk.cancelled => (bulk.cancel_event /\ bulk.idx <= Total)
    /\ (CancelledTooLate /\ bulk.pc \notin {"loop", "calling"}) =>
          /\ bulk.pc \in {"returned", "done"}
          /\ ~bulk.cancelled
          /\ Counted = Total
          /\ last.act = "bulk_done" =>
                ui = <<Tooltip(MsgSummary, <<ToString(bulk.updated), ToString(bulk.skipped),
                                             ToString(bulk.failed)>>)>>

\* C13: for an empty prompt template the prompt builder yields the empty
\* text: no instruction is appended and the request carries no input.
C13_EmptyTemplateYieldsEmptyPrompt ==
    (probe.op = "build" /\ probe.template = <<>>) =>
        (probe.out = <<>> /\ ~probe.input)

\* The content blocks of the message items of an envelope, in order.
MessageBlocks(env) ==
    LET messages == SelectSeq(env.output, LAMBDA item : item.type = "message")
    IN  Flatten([i \in DOMAIN messages |-> messages[i].content])

\* The non-empty texts of the output_text blocks among blocks, in order.
TextsOf(blocks) ==
    LET tb == SelectSeq(blocks, LAMBDA c : c.type = "output_text" /\ c.text # <<>>)
    IN  [i \in DOMAIN tb |-> tb[i].text]

RECURSIVE JoinLines(_)
JoinLines(texts) ==
    IF Len(texts) = 0 THEN <<>>
    ELSE IF Len(texts) = 1 THEN texts[1]
    ELSE texts[1] \o <<"\n">> \o JoinLines(SubSeq(texts, 2, Len(texts)))

\* The newline-joined, trimmed text of an envelope's message items.
JoinedText(env) == Strip(JoinLines(TextsOf(MessageBlocks(env))))

ExpectedExpansion(segs, fields) ==
    Flatten([i \in DOMAIN segs |->
                IF segs[i].lit THEN segs[i].text
                ELSE IF segs[i].name \in DOMAIN fields THEN fields[segs[i].name]
                ELSE <<>>])

\* C15: every placeholder {{name}} of the template (name trimmed of
\* surrounding whitespace) is replaced by the value of field name, or by
\* nothing when the note has no such field, and all other text is left as it
\* is; when every placeholder names a field of the note, no brace of a
\* placeholder remains in the output.
C15_EveryPlaceholderReplaced ==
    probe.op = "expand" =>
        LET fields == notes[probe.note].fields
        IN  /\ probe.out = ExpectedExpansion(probe.segs, fields)
            /\ (\A i \in DOMAIN probe.segs :
                    probe.segs[i].lit \/ probe.segs[i].name \in DOMAIN fields)
                  => \A k \in DOMAIN probe.out : probe.out[k] \notin {"{", "}"}

\* The text mentions "json" in some spelling, in one atom or across two.
MentionsJson(text) ==
    \E i \in DOMAIN text :
        \/ text[i] \in {"json", "JSON", "Json"}
        \/ /\ i < Len(text)
           /\ text[i] \in {"js", "JS"}
           /\ text[i + 1] \in {"on", "ON"}

\* C16: _ensure_json_instruction is idempotent: applied to its own result
\* (for any input text, with or without "json", the empty text included, and
\* for the prompts the builder makes) it returns that result; and a text
\* that already mentions "json" is returned unchanged.
C16_EnsureJsonIdempotent ==
    /\ probe.op \in {"ensure", "build"} => EnsureJsonInstruction(probe.out) = probe.out
    /\ (probe.op = "ensure" /\ MentionsJson(probe.text)) => probe.out = probe.text

\* C16 witness: the instruction was appended to a text without "json".
C16_Witness ==
    /\ probe.op = "ensure"
    /\ probe.text = <<"hi">>
    /\ probe.out = <<"hi", "\n", "\n", "Return output as ", "JSON", ".">>

====
